---- MODULE Spec2Model ----
(***************************************************************************)
(* The LiteYouTube widget of src/components/LiteYouTube.tsx as a state     *)
(* machine.  A widget instance is a React function component: its state    *)
(* is the two useState cells (isActive, useFallbackPoster), its inputs are *)
(* the props the caller passes, and what it shows is the element tree the  *)
(* function returns for the current props and state.  The events are the   *)
(* click on the poster button, the error event of the poster image, and a  *)
(* re-render by the caller with a changed prop.                            *)
(***************************************************************************)
EXTENDS Integers, Sequences, FiniteSets, TLC

VARIABLES
    live,               \* the mounted widget instances
    props,              \* props[i]: the props the caller last passed to i
    isActive,           \* isActive[i]: the useState cell of line 41
    useFallbackPoster,  \* useFallbackPoster[i]: the useState cell of line 42
    initialAutoPlay,    \* history: the argument useState(autoPlay) got at mount
    justMounted,        \* history: no event has reached i since its mount
    errors,             \* history: number of onError events handled by i
    posterTried         \* history: the img src values rendered since the
                        \* props of i were last set

vars == <<live, props, isActive, useFallbackPoster, initialAutoPlay,
          justMounted, errors, posterTried>>

\* Upper bound on the image error events counted per instance.
MaxErrors == 3

Instances == {1, 2}

\* An optional prop is <<>> when the caller leaves it out, else <<value>>.
Undefined == <<>>
Some(v) == <<v>>

VideoIds == {"abc123", "xyz789"}
Titles == {"Demo", "Intro tour"}
OptBoolean == {Some(TRUE), Some(FALSE), Undefined}

\* posterQuality?: the five tiers, in the order of POSTER_QUALITIES.
POSTER_QUALITIES == <<"default", "mqdefault", "hqdefault", "sddefault", "maxresdefault">>

\* The widths, as the template literal of the srcset prints them.
POSTER_WIDTHS ==
    [q \in {"default", "mqdefault", "hqdefault", "sddefault", "maxresdefault"} |->
        CASE q = "default" -> "120"
          [] q = "mqdefault" -> "320"
          [] q = "hqdefault" -> "480"
          [] q = "sddefault" -> "640"
          [] q = "maxresdefault" -> "1280"]

PosterQualityType == {POSTER_QUALITIES[k] : k \in 1..Len(POSTER_QUALITIES)}
PosterFormatType == {"jpg", "webp"}

\* interface LiteYouTubeProps, field by field: the values a caller may
\* pass.  className is always left out here.
PropNames ==
    {"videoId", "title", "className", "autoPlay", "posterQuality",
     "posterFormat", "priority"}
PropValues(name) ==
    CASE name = "videoId" -> VideoIds
      [] name = "title" -> Titles
      [] name = "className" -> {Undefined}
      [] name = "autoPlay" -> OptBoolean
      [] name = "posterQuality" ->
            {Some(q) : q \in PosterQualityType} \cup {Undefined}
      [] name = "posterFormat" ->
            {Some(f) : f \in PosterFormatType} \cup {Undefined}
      [] name = "priority" -> OptBoolean

LiteYouTubeProps ==
    [videoId : PropValues("videoId"),
     title : PropValues("title"),
     className : PropValues("className"),
     autoPlay : PropValues("autoPlay"),
     posterQuality : PropValues("posterQuality"),
     posterFormat : PropValues("posterFormat"),
     priority : PropValues("priority")]

\* A destructuring default: `name = dflt` in the parameter list.
Default(v, dflt) == IF v = Undefined THEN dflt ELSE v[1]

\* The destructured parameters of the component function.
Destructure(p) ==
    [videoId |-> p.videoId,
     title |-> p.title,
     className |-> Default(p.className, ""),
     autoPlay |-> Default(p.autoPlay, FALSE),
     posterQuality |-> Default(p.posterQuality, "mqdefault"),
     posterFormat |-> Default(p.posterFormat, "webp"),
     priority |-> Default(p.priority, FALSE)]

\* A slip: the fallback is the other format, whichever was asked for.
formatOther(d, fallback) ==
    IF ~fallback THEN d.posterFormat
    ELSE IF d.posterFormat = "webp" THEN "jpg" ELSE "webp"

\* const format = useFallbackPoster ? 'jpg' : posterFormat.
format(d, fallback) == IF fallback THEN "jpg" ELSE d.posterFormat

\* A slip: the folder is chosen by the posterFormat prop, not by format.
buildPosterUrlFolderOfProp(d, fallback, quality) ==
    LET folder == IF d.posterFormat = "webp" THEN "vi_webp" ELSE "vi"
        extension == IF format(d, fallback) = "webp" THEN "webp" ELSE "jpg"
    IN  "https://i.ytimg.com/" \o folder \o "/" \o d.videoId \o "/" \o quality
            \o "." \o extension

\* buildPosterUrl (useCallback): the closure reads posterFormat,
\* useFallbackPoster and videoId of the current render.
buildPosterUrl(d, fallback, quality) ==
    LET folder == IF format(d, fallback) = "webp" THEN "vi_webp" ELSE "vi"
        extension == IF format(d, fallback) = "webp" THEN "webp" ELSE "jpg"
    IN  "https://i.ytimg.com/" \o folder \o "/" \o d.videoId \o "/" \o quality
            \o "." \o extension

\* URLSearchParams.prototype.toString on a list of <<name, value>> pairs:
\* name=value joined by "&" in insertion order.  The names and values used
\* here consist of letters and digits, which the form encoding leaves as is.
RECURSIVE URLSearchParamsToString(_)
URLSearchParamsToString(pairs) ==
    IF pairs = <<>> THEN ""
    ELSE LET head == pairs[1][1] \o "=" \o pairs[1][2]
         IN  IF Len(pairs) = 1 THEN head
             ELSE head \o "&" \o URLSearchParamsToString(Tail(pairs))

\* A slip: the parameters in another order.
PlayerParamsReordered ==
    <<  <<"rel", "0">>, <<"autoplay", "1">>, <<"modestbranding", "1">>,
        <<"playsinline", "1">>  >>

\* The object literal given to new URLSearchParams, in property order.
PlayerParams ==
    <<  <<"autoplay", "1">>, <<"rel", "0">>, <<"modestbranding", "1">>,
        <<"playsinline", "1">>  >>

\* A slip: the autoplay parameter follows the autoPlay prop.
videoSrcAutoplayOfProp(d, active) ==
    LET base == "https://www.youtube.com/embed/" \o d.videoId
    IN  IF ~active THEN base
        ELSE base \o "?" \o URLSearchParamsToString(
                <<  <<"autoplay", IF d.autoPlay THEN "1" ELSE "0">> >>
                    \o Tail(PlayerParams))

\* A slip: the query parameters are added whatever isActive is.
videoSrcAlwaysParams(d, active) ==
    "https://www.youtube.com/embed/" \o d.videoId \o "?"
        \o URLSearchParamsToString(PlayerParams)

\* videoSrc (useMemo over isActive and videoId).
videoSrc(d, active) ==
    LET base == "https://www.youtube.com/embed/" \o d.videoId
    IN  IF ~active THEN base
        ELSE base \o "?" \o URLSearchParamsToString(PlayerParams)

\* posterUrl (useMemo).
posterUrl(d, fallback) == buildPosterUrl(d, fallback, d.posterQuality)

\* Array.prototype.join(', ') over a list of strings.
RECURSIVE JoinComma(_)
JoinComma(items) ==
    IF items = <<>> THEN ""
    ELSE IF Len(items) = 1 THEN items[1]
    ELSE items[1] \o ", " \o JoinComma(Tail(items))

\* A slip: the candidates are built in the format asked for, fallback or not.
posterSrcSetIgnoresFallback(d, fallback) ==
    JoinComma([k \in 1..Len(POSTER_QUALITIES) |->
        buildPosterUrl(d, FALSE, POSTER_QUALITIES[k]) \o " "
            \o POSTER_WIDTHS[POSTER_QUALITIES[k]] \o "w"])

\* posterSrcSet (useMemo).
posterSrcSet(d, fallback) ==
    JoinComma([k \in 1..Len(POSTER_QUALITIES) |->
        buildPosterUrl(d, fallback, POSTER_QUALITIES[k]) \o " "
            \o POSTER_WIDTHS[POSTER_QUALITIES[k]] \o "w"])

\* A slip: a fixed label, aria-label="Play video".
PosterButtonFixedLabel(d, fallback) ==
    [tag |-> "button",
     ariaLabel |-> "Play video",
     img |-> [src |-> posterUrl(d, fallback),
              srcSet |-> posterSrcSet(d, fallback),
              alt |-> d.title \o " preview frame",
              fetchPriority |-> IF d.priority THEN "high" ELSE "auto"]]

\* The <button> with its <img>, lines 84-108.
PosterButton(d, fallback) ==
    [tag |-> "button",
     ariaLabel |-> "Play " \o d.title,
     img |-> [src |-> posterUrl(d, fallback),
              srcSet |-> posterSrcSet(d, fallback),
              alt |-> d.title \o " preview frame",
              fetchPriority |-> IF d.priority THEN "high" ELSE "auto"]]

\* The <iframe>, lines 111-119.
PlayerFrame(d, active) ==
    [tag |-> "iframe", src |-> videoSrc(d, active), title |-> d.title]

\* A slip: the iframe is rendered whatever isActive is.
ChildrenAlwaysFrame(d, active, fallback) ==
    (IF ~active THEN <<PosterButton(d, fallback)>> ELSE <<>>)
        \o <<PlayerFrame(d, active)>>

\* A slip: the poster stays in the tree under the player.
ChildrenKeepsPoster(d, active, fallback) ==
    <<PosterButton(d, fallback)>>
        \o (IF active THEN <<PlayerFrame(d, active)>> ELSE <<>>)

\* The children of the returned <div>: {cond && <element/>} renders the
\* element when cond is true and nothing otherwise.
Children(d, active, fallback) ==
    (IF ~active THEN <<PosterButton(d, fallback)>> ELSE <<>>)
        \o (IF active THEN <<PlayerFrame(d, active)>> ELSE <<>>)

\* The element tree the component function returns.
LiteYouTube(p, active, fallback) ==
    LET d == Destructure(p)
    IN  [className |-> "lite-youtube relative w-full h-full overflow-hidden "
                          \o d.className,
         children |-> Children(d, active, fallback)]

\* The values the useMemo hooks hold after a render, <<value>> each: a hook
\* runs its factory in the first render and whenever a dependency changed,
\* whether or not the value is then used in the returned tree.
Memoized(p, active, fallback) ==
    LET d == Destructure(p)
    IN  [videoSrc |-> Some(videoSrc(d, active)),
         posterUrl |-> Some(posterUrl(d, fallback)),
         posterSrcSet |-> Some(posterSrcSet(d, fallback))]

\* What instance i currently shows.
Rendered(i) == LiteYouTube(props[i], isActive[i], useFallbackPoster[i])

\* The rendered elements with a given tag.
Elements(tree, tag) ==
    SelectSeq(tree.children, LAMBDA e : e.tag = tag)
Shows(tree, tag) == Elements(tree, tag) # <<>>

\* The poster button and its image are what the user can click and what can
\* signal a load error: both exist only while they are rendered.
PosterShown(i) == Shows(Rendered(i), "button")
PlayerShown(i) == Shows(Rendered(i), "iframe")

\* A slip: the click toggles, setIsActive(!isActive).
onClickToggles(active) == ~active

\* onClick={() => setIsActive(true)}: the next value of isActive.
onClick(active) == TRUE

\* A slip: the error handler toggles, setUseFallbackPoster(!useFallbackPoster).
onErrorToggles(fallback) == ~fallback

\* onError={() => setUseFallbackPoster(true)}: the next value of
\* useFallbackPoster.
onError(fallback) == TRUE

\* A slip: useState(false), the autoPlay prop is not looked at.
InitialIsActiveIgnoresAutoPlay(p) == FALSE

\* React.useState(autoPlay) and React.useState(false) at mount.
InitialIsActive(p) == Destructure(p).autoPlay
InitialUseFallbackPoster == FALSE

\* The img src values of a render, added to those tried so far.
WithPosterSrc(tried, tree) ==
    LET buttons == Elements(tree, "button")
    IN  tried \cup {buttons[k].img.src : k \in 1..Len(buttons)}

\* The props of an instance that is not mounted.
NoProps ==
    [videoId |-> "abc123", title |-> "Demo", className |-> Undefined,
     autoPlay |-> Undefined, posterQuality |-> Undefined,
     posterFormat |-> Undefined, priority |-> Undefined]

\* Mounting: the caller renders <LiteYouTube {...p}/> for the first time.
Mounted(mounted, ps) ==
    /\ live = mounted
    /\ props = [i \in Instances |-> IF i \in mounted THEN ps[i] ELSE NoProps]
    /\ isActive = [i \in Instances |-> InitialIsActive(props[i])]
    /\ useFallbackPoster = [i \in Instances |-> InitialUseFallbackPoster]
    /\ initialAutoPlay = [i \in Instances |-> Destructure(props[i]).autoPlay]
    /\ justMounted = [i \in Instances |-> TRUE]
    /\ errors = [i \in Instances |-> 0]
    /\ posterTried = [i \in Instances |->
            IF i \in mounted THEN WithPosterSrc({}, Rendered(i)) ELSE {}]

\* One widget on the page, with any props.
Init == \E p \in LiteYouTubeProps : Mounted({1}, [i \in {1} |-> p])

\* The user clicks the poster button of instance i.
Activate(i) ==
    /\ i \in live
    /\ PosterShown(i)
    /\ isActive' = [isActive EXCEPT ![i] = onClick(isActive[i])]
    /\ posterTried' = [posterTried EXCEPT ![i] =
            WithPosterSrc(@, LiteYouTube(props[i], isActive'[i],
                                         useFallbackPoster[i]))]
    /\ justMounted' = [justMounted EXCEPT ![i] = FALSE]
    /\ UNCHANGED <<live, props, useFallbackPoster, initialAutoPlay, errors>>

\* A slip: the fallback flag is a variable of the module, shared by all
\* instances.
ImgErrorSharedFlag(i) ==
    /\ i \in live
    /\ PosterShown(i)
    /\ errors[i] < MaxErrors
    /\ useFallbackPoster' = [j \in Instances |-> IF j \in live THEN TRUE
                                                 ELSE useFallbackPoster[j]]
    /\ errors' = [errors EXCEPT ![i] = @ + 1]
    /\ posterTried' = [j \in Instances |->
            IF j \in live
            THEN WithPosterSrc(posterTried[j],
                    LiteYouTube(props[j], isActive[j], useFallbackPoster'[j]))
            ELSE posterTried[j]]
    /\ justMounted' = [justMounted EXCEPT ![i] = FALSE]
    /\ UNCHANGED <<live, props, isActive, initialAutoPlay>>

\* A slip: a failed poster brings up the player, the handler also calls
\* setIsActive(true).
ImgErrorActivates(i) ==
    /\ i \in live
    /\ PosterShown(i)
    /\ errors[i] < MaxErrors
    /\ useFallbackPoster' =
            [useFallbackPoster EXCEPT ![i] = onError(useFallbackPoster[i])]
    /\ isActive' = [isActive EXCEPT ![i] = TRUE]
    /\ errors' = [errors EXCEPT ![i] = @ + 1]
    /\ posterTried' = [posterTried EXCEPT ![i] =
            WithPosterSrc(@, LiteYouTube(props[i], isActive'[i],
                                         useFallbackPoster'[i]))]
    /\ justMounted' = [justMounted EXCEPT ![i] = FALSE]
    /\ UNCHANGED <<live, props, initialAutoPlay>>

\* The poster image of instance i fails to load.
ImgError(i) ==
    /\ i \in live
    /\ PosterShown(i)
    /\ errors[i] < MaxErrors
    /\ useFallbackPoster' =
            [useFallbackPoster EXCEPT ![i] = onError(useFallbackPoster[i])]
    /\ errors' = [errors EXCEPT ![i] = @ + 1]
    /\ posterTried' = [posterTried EXCEPT ![i] =
            WithPosterSrc(@, LiteYouTube(props[i], isActive[i],
                                         useFallbackPoster'[i]))]
    /\ justMounted' = [justMounted EXCEPT ![i] = FALSE]
    /\ UNCHANGED <<live, props, isActive, initialAutoPlay>>

\* A slip: the state follows the props, as a useEffect that calls
\* setIsActive(autoPlay) and setUseFallbackPoster(false) on a change would do.
RerenderResetsState(i) ==
    /\ i \in live
    /\ \E name \in PropNames : \E v \in PropValues(name) :
        /\ v # props[i][name]
        /\ props' = [props EXCEPT ![i] = [@ EXCEPT ![name] = v]]
    /\ isActive' = [isActive EXCEPT ![i] = InitialIsActive(props'[i])]
    /\ useFallbackPoster' =
            [useFallbackPoster EXCEPT ![i] = InitialUseFallbackPoster]
    /\ posterTried' = [posterTried EXCEPT ![i] =
            WithPosterSrc({}, LiteYouTube(props'[i], isActive'[i],
                                          useFallbackPoster'[i]))]
    /\ justMounted' = [justMounted EXCEPT ![i] = FALSE]
    /\ UNCHANGED <<live, initialAutoPlay, errors>>

\* The caller renders instance i again with one prop changed.  useState
\* ignores its argument after the mount, so the two cells keep their values.
Rerender(i) ==
    /\ i \in live
    /\ \E name \in PropNames : \E v \in PropValues(name) :
        /\ v # props[i][name]
        /\ props' = [props EXCEPT ![i] = [@ EXCEPT ![name] = v]]
    /\ posterTried' = [posterTried EXCEPT ![i] =
            WithPosterSrc({}, LiteYouTube(props'[i], isActive[i],
                                          useFallbackPoster[i]))]
    /\ justMounted' = [justMounted EXCEPT ![i] = FALSE]
    /\ UNCHANGED <<live, isActive, useFallbackPoster, initialAutoPlay, errors>>

Next ==
    \E i \in Instances :
        \/ Activate(i)
        \/ ImgError(i)
        \/ Rerender(i)

Spec == Init /\ [][Next]_vars

\* Two widgets on one page.  The props of each are drawn from a part of
\* LiteYouTubeProps in which every prop takes two values.
PagePropValues(name) ==
    CASE name = "autoPlay" -> {Some(TRUE), Undefined}
      [] name = "posterQuality" -> {Some("hqdefault"), Undefined}
      [] name = "posterFormat" -> {Some("jpg"), Undefined}
      [] name = "priority" -> {Some(TRUE), Undefined}
      [] OTHER -> PropValues(name)

PageProps ==
    [videoId : PagePropValues("videoId"),
     title : PagePropValues("title"),
     className : PagePropValues("className"),
     autoPlay : PagePropValues("autoPlay"),
     posterQuality : PagePropValues("posterQuality"),
     posterFormat : PagePropValues("posterFormat"),
     priority : PagePropValues("priority")]

InitPage == \E ps \in [Instances -> PageProps] : Mounted(Instances, ps)

\* The events of the page: clicks and image errors, on either widget, in any
\* order.
NextPage ==
    \E i \in Instances :
        \/ Activate(i)
        \/ ImgError(i)

SpecPage == InitPage /\ [][NextPage]_vars

(***************************************************************************)
(* The earlier version of the widget, src/index.tsx lines 22-98: one       *)
(* useState cell, a jpg poster, no srcSet and no onError handler.          *)
(***************************************************************************)

\* interface LiteYouTubeProps of the earlier version.
LiteYouTubePropsV1 ==
    [videoId : PropValues("videoId"),
     title : PropValues("title"),
     className : PropValues("className"),
     autoPlay : PropValues("autoPlay"),
     posterQuality : PropValues("posterQuality")]

DestructureV1(p) ==
    [videoId |-> p.videoId,
     title |-> p.title,
     className |-> Default(p.className, ""),
     autoPlay |-> Default(p.autoPlay, FALSE),
     posterQuality |-> Default(p.posterQuality, "hqdefault")]

\* A slip: the earlier version without the playsinline parameter.
PlayerParamsV1NoInline ==
    <<  <<"autoplay", "1">>, <<"rel", "0">>, <<"modestbranding", "1">>  >>

PlayerParamsV1 ==
    <<  <<"autoplay", "1">>, <<"rel", "0">>, <<"modestbranding", "1">>,
        <<"playsinline", "1">>  >>

videoSrcV1(d, active) ==
    LET base == "https://www.youtube.com/embed/" \o d.videoId
    IN  IF ~active THEN base
        ELSE base \o "?" \o URLSearchParamsToString(PlayerParamsV1)

posterUrlV1(d) ==
    "https://i.ytimg.com/vi/" \o d.videoId \o "/" \o d.posterQuality \o ".jpg"

PosterButtonV1(d) ==
    [tag |-> "button",
     ariaLabel |-> "Play " \o d.title,
     img |-> [src |-> posterUrlV1(d),
              alt |-> d.title \o " preview frame"]]

PlayerFrameV1(d, active) ==
    [tag |-> "iframe", src |-> videoSrcV1(d, active), title |-> d.title]

ChildrenV1(d, active) ==
    (IF ~active THEN <<PosterButtonV1(d)>> ELSE <<>>)
        \o (IF active THEN <<PlayerFrameV1(d, active)>> ELSE <<>>)

LiteYouTubeV1(p, active) ==
    LET d == DestructureV1(p)
    IN  [className |-> "lite-youtube relative w-full h-full overflow-hidden "
                          \o d.className,
         children |-> ChildrenV1(d, active)]

onClickV1(active) == TRUE
InitialIsActiveV1(p) == DestructureV1(p).autoPlay

\* Side by side: instance 1 is the widget of components/LiteYouTube.tsx,
\* instance 2 the one of index.tsx.
RenderedV1(i) == LiteYouTubeV1(props[i], isActive[i])
PosterShownV1(i) == Shows(RenderedV1(i), "button")
PlayerShownV1(i) == Shows(RenderedV1(i), "iframe")

\* The caller mounts both with the same videoId, title and autoPlay; the
\* earlier version has its own posterQuality.
InitPair ==
    \E p \in LiteYouTubeProps : \E q \in PropValues("posterQuality") :
        LET p1 == [videoId |-> p.videoId, title |-> p.title,
                   className |-> p.className, autoPlay |-> p.autoPlay,
                   posterQuality |-> q]
        IN  /\ live = {1, 2}
            /\ props = [i \in Instances |-> IF i = 1 THEN p ELSE p1]
            /\ isActive = [i \in Instances |->
                    IF i = 1 THEN InitialIsActive(p) ELSE InitialIsActiveV1(p1)]
            /\ useFallbackPoster =
                    [i \in Instances |-> InitialUseFallbackPoster]
            /\ initialAutoPlay = [i \in Instances |->
                    IF i = 1 THEN Destructure(p).autoPlay
                    ELSE DestructureV1(p1).autoPlay]
            /\ justMounted = [i \in Instances |-> TRUE]
            /\ errors = [i \in Instances |-> 0]
            /\ posterTried = [i \in Instances |->
                    IF i = 1 THEN WithPosterSrc({}, Rendered(1))
                    ELSE WithPosterSrc({}, RenderedV1(2))]

\* One activation event given to both: each version runs its click handler
\* if its poster button is there to click.
ActivatePair ==
    /\ PosterShown(1) \/ PosterShownV1(2)
    /\ isActive' = [i \in Instances |->
            IF i = 1
            THEN (IF PosterShown(1) THEN onClick(isActive[1]) ELSE isActive[1])
            ELSE (IF PosterShownV1(2) THEN onClickV1(isActive[2])
                  ELSE isActive[2])]
    /\ posterTried' = [i \in Instances |->
            IF i = 1
            THEN WithPosterSrc(posterTried[1],
                    LiteYouTube(props[1], isActive'[1], useFallbackPoster[1]))
            ELSE WithPosterSrc(posterTried[2],
                    LiteYouTubeV1(props[2], isActive'[2]))]
    /\ justMounted' = [i \in Instances |-> FALSE]
    /\ UNCHANGED <<live, props, useFallbackPoster, initialAutoPlay, errors>>

\* The events of the pair: activations of both, and load failures of the
\* poster of instance 1 (the earlier version has no handler for them).
NextPair ==
    \/ ActivatePair
    \/ ImgError(1)

SpecPair == InitPair /\ [][NextPair]_vars

TypeOK ==
    /\ live \subseteq Instances
    /\ props \in [Instances -> LiteYouTubeProps]
    /\ isActive \in [Instances -> BOOLEAN]
    /\ useFallbackPoster \in [Instances -> BOOLEAN]
    /\ initialAutoPlay \in [Instances -> BOOLEAN]
    /\ justMounted \in [Instances -> BOOLEAN]
    /\ errors \in [Instances -> 0..MaxErrors]

(***************************************************************************)
(* What the claims speak of.                                               *)
(***************************************************************************)

\* DisplayState of the specification: the isActive cell.
DisplayState(i) == IF isActive[i] THEN "Active" ELSE "Dormant"

\* The src of the rendered poster image and of the rendered player.
PosterSrc(i) == Elements(Rendered(i), "button")[1].img.src
PlayerSrc(i) == Elements(Rendered(i), "iframe")[1].src

\* C1: right after construction DisplayState is Active exactly when the
\* autoPlay input is true, Dormant when it is false or left out, and the
\* fallback flag is unset.
C1_InitialState ==
    \A i \in live :
        justMounted[i] =>
            /\ (DisplayState(i) = "Active") <=> (props[i].autoPlay = Some(TRUE))
            /\ props[i].autoPlay \in {Some(FALSE), Undefined}
                    => DisplayState(i) = "Dormant"
            /\ useFallbackPoster[i] = FALSE

C1_Witness ==
    \E i \in live :
        /\ justMounted[i]
        /\ props[i].autoPlay = Undefined
        /\ DisplayState(i) = "Dormant"
        /\ ~useFallbackPoster[i]

\* C2: while DisplayState is Dormant the iframe is not in the rendered
\* output, whatever image load failures have happened.
C2_NoPlayerWhileDormant ==
    \A i \in live : DisplayState(i) = "Dormant" => ~PlayerShown(i)

C2_Witness ==
    \E i \in live :
        DisplayState(i) = "Dormant" /\ errors[i] >= 2 /\ ~PlayerShown(i)

\* C3: an Active instance is Active after every step, and the poster is
\* rendered neither in the Active state nor after the step.
C3_ActiveIsPermanent ==
    [][\A i \in live :
            DisplayState(i) = "Active" =>
                /\ ~PosterShown(i)
                /\ DisplayState(i)' = "Active"
                /\ ~PosterShown(i)']_vars

\* An instance mounted Active that was later re-rendered with autoPlay false.
C3_Witness ==
    \E i \in live :
        /\ initialAutoPlay[i]
        /\ props[i].autoPlay = Some(FALSE)
        /\ DisplayState(i) = "Active"
        /\ ~PosterShown(i)

\* The cells of instance i, and the cells after the click handler ran.
Cells(i) ==
    [isActive |-> isActive[i], useFallbackPoster |-> useFallbackPoster[i]]
Clicked(c) == [c EXCEPT !.isActive = onClick(c.isActive)]

\* C4: from every state, the click handler applied twice gives the state it
\* gives applied once: Active, the same fallback flag, the same player source.
C4_ActivationIdempotent ==
    \A i \in live :
        LET once == Clicked(Cells(i))
            twice == Clicked(once)
            d == Destructure(props[i])
        IN  /\ once.isActive
            /\ twice = once
            /\ once.useFallbackPoster = useFallbackPoster[i]
            /\ videoSrc(d, twice.isActive) = videoSrc(d, once.isActive)

\* An instance activated by a click after its poster had failed to load.
C4_Witness ==
    \E i \in live :
        /\ ~initialAutoPlay[i]
        /\ isActive[i]
        /\ useFallbackPoster[i]
        /\ Cells(i) = Clicked(Cells(i))

\* C5: an instance constructed with autoPlay true shows the player, and
\* never the poster, in its first render and in every later state.
C5_AutoPlayNeverShowsPoster ==
    \A i \in live :
        initialAutoPlay[i] => PlayerShown(i) /\ ~PosterShown(i)

C5_Witness ==
    \E i \in live :
        /\ justMounted[i]
        /\ props[i].autoPlay = Some(TRUE)
        /\ PlayerShown(i)
        /\ ~PosterShown(i)

\* Whether string s ends with string t.
EndsWith(s, t) ==
    Len(s) >= Len(t) /\ SubSeq(s, Len(s) - Len(t) + 1, Len(s)) = t

\* The poster URL the specification gives for props p in the format jpg.
JpgPosterUrl(p) ==
    "https://i.ytimg.com/vi/" \o p.videoId \o "/"
        \o Default(p.posterQuality, "mqdefault") \o ".jpg"

\* The format the poster of instance i is built with.
PosterFormat(i) == format(Destructure(props[i]), useFallbackPoster[i])

\* A step in which instance i handled an image load failure.
LoadFailure(i) == errors'[i] = errors[i] + 1

\* C6: a set fallback flag is set after every step, and with it the poster
\* format is jpg after the step, whatever posterFormat the caller then asks.
C6_FallbackMonotonic ==
    [][\A i \in live :
            useFallbackPoster[i] =>
                /\ useFallbackPoster'[i]
                /\ PosterFormat(i) = "jpg"
                /\ PosterFormat(i)' = "jpg"
                /\ PosterShown(i)' => PosterSrc(i)' = JpgPosterUrl(props'[i])]_vars

\* The flag is set, a second failure has been handled and the caller asks
\* for webp.
C6_Witness ==
    \E i \in live :
        /\ useFallbackPoster[i]
        /\ errors[i] >= 2
        /\ props[i].posterFormat = Some("webp")
        /\ PosterShown(i)
        /\ EndsWith(PosterSrc(i), ".jpg")
        /\ ~EndsWith(PosterSrc(i), ".webp")

\* C7: with posterFormat webp, after a load failure the poster URL is the
\* vi/jpg one, and a load failure after the first leaves the poster URL as
\* it was.
C7_FailureGivesJpgOnce ==
    [][\A i \in live :
            LET d == Destructure(props[i])
            IN  LoadFailure(i) /\ d.posterFormat = "webp" =>
                    /\ PosterSrc(i)' = JpgPosterUrl(props[i])
                    /\ errors[i] >= 1 => PosterSrc(i)' = PosterSrc(i)]_vars

C7_Witness ==
    \E i \in live :
        /\ errors[i] = 2
        /\ props[i].posterFormat = Some("webp")
        /\ props[i].videoId = "abc123"
        /\ props[i].posterQuality = Some("hqdefault")
        /\ PosterShown(i)
        /\ PosterSrc(i) = "https://i.ytimg.com/vi/abc123/hqdefault.jpg"

\* C8: a load failure leaves DisplayState and the player source as they
\* were; a Dormant instance is Dormant after it.
C8_FailureKeepsDisplayState ==
    [][\A i \in live :
            LoadFailure(i) =>
                /\ DisplayState(i)' = DisplayState(i)
                /\ isActive'[i] = isActive[i]
                /\ videoSrc(Destructure(props[i]), isActive[i])' =
                        videoSrc(Destructure(props[i]), isActive[i])]_vars

C8_Witness ==
    \E i \in live :
        /\ errors[i] = MaxErrors
        /\ DisplayState(i) = "Dormant"
        /\ videoSrc(Destructure(props[i]), isActive[i]) =
                "https://www.youtube.com/embed/" \o props[i].videoId

\* The two poster URLs of instance i: in the format asked for and in jpg.
PreferredPosterUrl(i) == posterUrl(Destructure(props[i]), FALSE)
FallbackPosterUrl(i) == posterUrl(Destructure(props[i]), TRUE)

\* C9: with the inputs fixed the poster URLs shown are the preferred one and
\* then the fallback one, at most two; a failure of the fallback one brings
\* no other URL; and the widget always renders its poster or its player.
C9_OneDowngradeNeverFatal ==
    /\ [](\A i \in live :
            /\ Cardinality(posterTried[i]) <= 2
            /\ posterTried[i] \subseteq
                    {PreferredPosterUrl(i), FallbackPosterUrl(i)}
            /\ Len(Rendered(i).children) = 1
            /\ PosterShown(i) \/ PlayerShown(i))
    /\ [][\A i \in live :
            LoadFailure(i) /\ useFallbackPoster[i] =>
                /\ PosterSrc(i)' = PosterSrc(i)
                /\ PosterSrc(i)' = FallbackPosterUrl(i)
                /\ posterTried'[i] = posterTried[i]]_vars

\* Both URLs were shown and the fallback one failed as well.
C9_Witness ==
    \E i \in live :
        /\ errors[i] = MaxErrors
        /\ Cardinality(posterTried[i]) = 2
        /\ PosterShown(i)
        /\ PosterSrc(i) = FallbackPosterUrl(i)

\* C10: the player of an Active instance has the embed URL of its videoId
\* with autoplay, rel, modestbranding and playsinline in this order.
C10_PlayerUrl ==
    \A i \in live :
        DisplayState(i) = "Active" =>
            /\ PlayerShown(i)
            /\ PlayerSrc(i) = "https://www.youtube.com/embed/"
                    \o props[i].videoId
                    \o "?autoplay=1&rel=0&modestbranding=1&playsinline=1"
            /\ props[i].videoId = "xyz789" =>
                    PlayerSrc(i) = "https://www.youtube.com/embed/xyz789?autoplay=1&rel=0&modestbranding=1&playsinline=1"

\* Activated by a click.
C10_Witness ==
    \E i \in live :
        /\ ~initialAutoPlay[i]
        /\ DisplayState(i) = "Active"
        /\ props[i].videoId = "xyz789"
        /\ PlayerSrc(i) = "https://www.youtube.com/embed/xyz789?autoplay=1&rel=0&modestbranding=1&playsinline=1"

\* The poster URL of the specification for a videoId, a quality tier and a
\* format.
SpecPosterUrl(videoId, quality, fmt) ==
    IF fmt = "webp"
    THEN "https://i.ytimg.com/vi_webp/" \o videoId \o "/" \o quality \o ".webp"
    ELSE "https://i.ytimg.com/vi/" \o videoId \o "/" \o quality \o ".jpg"

\* C11: for every videoId, quality tier and current format the poster URL is
\* https://i.ytimg.com/<folder>/<videoId>/<quality>.<extension> with
\* vi_webp and webp for the format webp, vi and jpg otherwise; the rendered
\* poster has the URL of the requested tier.
C11_PosterUrlShape ==
    \A i \in live :
        LET d == Destructure(props[i])
        IN  /\ \A q \in PosterQualityType :
                buildPosterUrl(d, useFallbackPoster[i], q) =
                    SpecPosterUrl(props[i].videoId, q, PosterFormat(i))
            /\ PosterShown(i) =>
                    PosterSrc(i) = SpecPosterUrl(props[i].videoId,
                                        d.posterQuality, PosterFormat(i))
            /\ (/\ props[i].videoId = "abc123"
                /\ d.posterQuality = "hqdefault"
                /\ PosterFormat(i) = "webp"
                /\ PosterShown(i)) =>
                    PosterSrc(i) = "https://i.ytimg.com/vi_webp/abc123/hqdefault.webp"

C11_Witness ==
    \E i \in live :
        /\ props[i].videoId = "abc123"
        /\ props[i].posterQuality = Some("hqdefault")
        /\ PosterFormat(i) = "webp"
        /\ PosterShown(i)
        /\ PosterSrc(i) = "https://i.ytimg.com/vi_webp/abc123/hqdefault.webp"

\* The videoSrc the component holds after the current render of instance i.
MemoizedVideoSrc(i) ==
    Memoized(props[i], isActive[i], useFallbackPoster[i]).videoSrc

\* C12 as stated: for an instance constructed with autoPlay false no player
\* source URL is computed in a state before the first activation.
C12_NoPlayerUrlBeforeActivation ==
    \A i \in live :
        ~initialAutoPlay[i] /\ DisplayState(i) = "Dormant" =>
            MemoizedVideoSrc(i) = Undefined

\* C12 as amended: for an instance constructed with autoPlay false, before
\* the first activation no player is rendered, so the player URL is handed to
\* no iframe; videoSrc is computed all the same, and is then the embed URL of
\* the videoId without query parameters.
C12_NoPlayerRenderedBeforeActivation ==
    \A i \in live :
        ~initialAutoPlay[i] /\ DisplayState(i) = "Dormant" =>
            /\ ~PlayerShown(i)
            /\ MemoizedVideoSrc(i) =
                    Some("https://www.youtube.com/embed/" \o props[i].videoId)

C12_Witness ==
    \E i \in live :
        /\ ~initialAutoPlay[i]
        /\ justMounted[i]
        /\ DisplayState(i) = "Dormant"
        /\ props[i].videoId = "xyz789"
        /\ MemoizedVideoSrc(i) = Some("https://www.youtube.com/embed/xyz789")
        /\ ~PlayerShown(i)

\* Whether string t occurs in string s.
Contains(s, t) ==
    \E k \in 1..(Len(s) - Len(t) + 1) : SubSeq(s, k, k + Len(t) - 1) = t

\* The accessible label of the rendered poster button.
PosterLabel(i) == Elements(Rendered(i), "button")[1].ariaLabel

\* C14: whenever the poster button is rendered, before or after a format
\* fallback, its aria-label contains the title passed in.
C14_LabelContainsTitle ==
    \A i \in live :
        PosterShown(i) =>
            /\ Contains(PosterLabel(i), props[i].title)
            /\ PosterLabel(i) = "Play " \o props[i].title

C14_Witness ==
    \E i \in live :
        /\ PosterShown(i)
        /\ useFallbackPoster[i]
        /\ props[i].title = "Intro tour"
        /\ PosterLabel(i) = "Play Intro tour"

\* C17: an Active instance handles no image load failure and its fallback
\* flag is the same after every step: the img that signals the failure is
\* rendered only while Dormant.
C17_NoFailureWhileActive ==
    [][\A i \in live :
            DisplayState(i) = "Active" =>
                /\ ~PosterShown(i)
                /\ ~LoadFailure(i)
                /\ errors'[i] = errors[i]
                /\ useFallbackPoster'[i] = useFallbackPoster[i]]_vars

\* Activated after one failure, then re-rendered with another posterFormat.
C17_Witness ==
    \E i \in live :
        /\ DisplayState(i) = "Active"
        /\ errors[i] = 1
        /\ useFallbackPoster[i]
        /\ props[i].posterFormat = Some("jpg")
        /\ ~PosterShown(i)

\* C18: a re-render that changes the autoPlay input leaves DisplayState as
\* it was, in both directions.
C18_AutoPlayReadAtMountOnly ==
    [][\A i \in live :
            props'[i].autoPlay # props[i].autoPlay =>
                /\ isActive'[i] = isActive[i]
                /\ DisplayState(i)' = DisplayState(i)]_vars

\* A Dormant instance whose caller later passed autoPlay true.
C18_Witness ==
    \E i \in live :
        /\ ~initialAutoPlay[i]
        /\ props[i].autoPlay = Some(TRUE)
        /\ DisplayState(i) = "Dormant"
        /\ PosterShown(i)

\* The srcSet of the rendered poster image.
PosterSrcSet(i) == Elements(Rendered(i), "button")[1].img.srcSet

\* C19: with posterFormat jpg a load failure sets the fallback flag and
\* leaves the poster URL and the whole srcset as they were.
C19_NoFallbackForJpg ==
    [][\A i \in live :
            LoadFailure(i) /\ Destructure(props[i]).posterFormat = "jpg" =>
                /\ useFallbackPoster'[i]
                /\ PosterSrc(i)' = PosterSrc(i)
                /\ PosterSrcSet(i)' = PosterSrcSet(i)
                /\ posterTried'[i] = posterTried[i]]_vars

C19_Witness ==
    \E i \in live :
        /\ props[i].posterFormat = Some("jpg")
        /\ errors[i] = 1
        /\ useFallbackPoster[i]
        /\ PosterShown(i)
        /\ PosterSrc(i) = PreferredPosterUrl(i)
        /\ posterTried[i] = {PreferredPosterUrl(i)}

\* One srcset candidate of the specification: URL, space, width descriptor.
SpecCandidate(videoId, quality, width, fmt) ==
    SpecPosterUrl(videoId, quality, fmt) \o " " \o width \o "w"

\* The srcset of the specification: the five candidates in one format.
SpecSrcSet(videoId, fmt) ==
    SpecCandidate(videoId, "default", "120", fmt) \o ", "
        \o SpecCandidate(videoId, "mqdefault", "320", fmt) \o ", "
        \o SpecCandidate(videoId, "hqdefault", "480", fmt) \o ", "
        \o SpecCandidate(videoId, "sddefault", "640", fmt) \o ", "
        \o SpecCandidate(videoId, "maxresdefault", "1280", fmt)

\* C20: in every Dormant state the srcset is the five candidates default
\* 120w, mqdefault 320w, hqdefault 480w, sddefault 640w, maxresdefault 1280w,
\* all in the format of src; src is the URL of the candidate of the requested
\* quality; with the fallback flag set src and all candidates are vi/jpg.
C20_SrcAndSrcSetAgree ==
    \A i \in live :
        DisplayState(i) = "Dormant" =>
            LET d == Destructure(props[i])
                fmt == IF useFallbackPoster[i] THEN "jpg" ELSE d.posterFormat
            IN  /\ PosterShown(i)
                /\ PosterSrcSet(i) = SpecSrcSet(d.videoId, fmt)
                /\ PosterSrc(i) = SpecPosterUrl(d.videoId, d.posterQuality, fmt)
                /\ Contains(PosterSrcSet(i),
                        PosterSrc(i) \o " " \o POSTER_WIDTHS[d.posterQuality] \o "w")
                /\ useFallbackPoster[i] =>
                        /\ ~Contains(PosterSrcSet(i), "webp")
                        /\ ~Contains(PosterSrc(i), "webp")

C20_Witness ==
    \E i \in live :
        /\ DisplayState(i) = "Dormant"
        /\ errors[i] >= 1
        /\ props[i].posterFormat = Undefined
        /\ props[i].posterQuality = Some("sddefault")
        /\ props[i].videoId = "abc123"
        /\ PosterSrc(i) = "https://i.ytimg.com/vi/abc123/sddefault.jpg"
        /\ PosterSrcSet(i) = "https://i.ytimg.com/vi/abc123/default.jpg 120w, https://i.ytimg.com/vi/abc123/mqdefault.jpg 320w, https://i.ytimg.com/vi/abc123/hqdefault.jpg 480w, https://i.ytimg.com/vi/abc123/sddefault.jpg 640w, https://i.ytimg.com/vi/abc123/maxresdefault.jpg 1280w"

\* A step in which instance i handled a click or an image load failure.
EventOn(i) == isActive'[i] # isActive[i] \/ LoadFailure(i)

\* C13: with two instances, a click or an image load failure on one of them
\* leaves DisplayState, fallback flag and props of the other as they were.
C13_InstancesIndependent ==
    [][\A i \in live : \A j \in live \ {i} :
            EventOn(i) =>
                /\ isActive'[j] = isActive[j]
                /\ DisplayState(j)' = DisplayState(j)
                /\ useFallbackPoster'[j] = useFallbackPoster[j]
                /\ errors'[j] = errors[j]
                /\ props'[j] = props[j]]_vars

\* One instance was activated by a click, the other handled a failure, and
\* neither has the state of the other.
C13_Witness ==
    \E i \in live : \E j \in live \ {i} :
        /\ ~initialAutoPlay[i] /\ isActive[i] /\ ~useFallbackPoster[i]
        /\ ~isActive[j] /\ useFallbackPoster[j] /\ errors[j] = 2

\* C15: two Active instances with the same videoId have the same player
\* source, whatever their title, posterQuality, posterFormat, priority,
\* autoPlay and fallback flag.
C15_PlayerSrcOfVideoIdOnly ==
    \A i \in live : \A j \in live :
        /\ props[i].videoId = props[j].videoId
        /\ DisplayState(i) = "Active"
        /\ DisplayState(j) = "Active"
        => PlayerSrc(i) = PlayerSrc(j)

\* Two Active instances of one video that differ in everything else.
C15_Witness ==
    \E i \in live : \E j \in live \ {i} :
        /\ props[i].videoId = props[j].videoId
        /\ props[i].title # props[j].title
        /\ props[i].posterQuality # props[j].posterQuality
        /\ props[i].posterFormat # props[j].posterFormat
        /\ props[i].priority # props[j].priority
        /\ useFallbackPoster[i] /\ ~useFallbackPoster[j]
        /\ initialAutoPlay[j] /\ ~initialAutoPlay[i]
        /\ DisplayState(i) = "Active"
        /\ DisplayState(j) = "Active"
        /\ PlayerSrc(i) = PlayerSrc(j)

\* The kinds of elements in a rendered tree, in order.
Kinds(tree) == [k \in 1..Len(tree.children) |-> tree.children[k].tag]

\* C16: run side by side on the same videoId, title, autoPlay and
\* activation events, the two versions are in the same DisplayState, render
\* the same kind of output with the same label, and when Active the same
\* iframe with the same source; what differs is inside the poster image.
C16_VersionsAgree ==
    /\ isActive[1] = isActive[2]
    /\ Kinds(Rendered(1)) = Kinds(RenderedV1(2))
    /\ Rendered(1).className = RenderedV1(2).className
    /\ Elements(Rendered(1), "iframe") = Elements(RenderedV1(2), "iframe")
    /\ videoSrc(Destructure(props[1]), isActive[1]) =
            videoSrcV1(DestructureV1(props[2]), isActive[2])
    /\ PosterShown(1) =>
            /\ PosterShownV1(2)
            /\ PosterLabel(1) = Elements(RenderedV1(2), "button")[1].ariaLabel
            /\ Elements(Rendered(1), "button")[1].img.alt =
                    Elements(RenderedV1(2), "button")[1].img.alt

\* Both activated by the one click, after a format fallback in instance 1.
C16_Witness ==
    /\ ~initialAutoPlay[1]
    /\ isActive[1] /\ isActive[2]
    /\ useFallbackPoster[1]
    /\ PlayerShown(1) /\ PlayerShownV1(2)
    /\ PlayerSrc(1) = Elements(RenderedV1(2), "iframe")[1].src
    /\ posterTried[1] # posterTried[2]

====
